---- MODULE Spec2Model ----
(***************************************************************************)
(* A model of package udock (udock.go): the wrappers around the docker     *)
(* client.  One caller drives one client; every wrapper is a sequence of   *)
(* steps, one per remote call it issues, and the daemon (images,           *)
(* containers) answers each call with success or failure.                  *)
(*                                                                         *)
(* An error value is modelled as the set of sentinels errors.Is matches    *)
(* in it (errors.Join and %w both keep the chain); nil is the empty set.   *)
(***************************************************************************)
EXTENDS Naturals, Integers, Sequences, FiniteSets, TLC

VARIABLES
    client,       \* the caller's *client.Client: "nil" or "held"
    images,       \* the daemon's local images (set of references)
    containers,   \* the daemon's containers: id -> "absent" | "created" | "started"
    initImages,   \* history: the daemon's image set when the model starts
    everPulled,   \* history: references PullImage was ever invoked with
    pulledOK,     \* history: refs absent at a PullImage that returned nil, not removed since
    op,           \* the wrapper being executed (or executed last)
    arg,          \* its dockerImage / containerID argument
    pc,           \* position inside the wrapper; "done" once it has returned, "idle" between calls
    ret,          \* the error it returned (Nil = nil)
    retID,        \* the container ID CreateContainer / the client CreateClient returned
    calls,        \* remote calls issued by this invocation, per kind
    ctxTimeout,   \* timeout of the live context.WithTimeout (0: none)
    expired,      \* whether that context's deadline has passed
    ticks,        \* poll intervals elapsed since StartContainer made its context
    tickPending,  \* a tick is waiting in ticker.C
    wasAbsent,    \* history: the image was absent when PullImage was invoked
    verifyErr,    \* PullImage: what its VerifyHaveImage returned (Pending before)
    listOut,      \* ImageList's answer: "none" | "error" | "empty" | "found"
    pullOut,      \* ImagePull's answer: "none" | "ok" | "error"
    readOut,      \* io.Copy's end: "none" | "eof" | "error"
    stream,       \* chunks left unread in the pull stream
    startOut,     \* ContainerStart's answer: "none" | "ok" | "error"
    lastInspect,  \* last ContainerInspect answer: "none" | "running" | "notrunning" | "error" | "deadline"
    inspectID,    \* the container ID the last ContainerInspect was issued for
    ports,        \* CreateContainer: the ports argument (host port -> container port)
    sentPortmap,  \* CreateContainer: the nat.PortMap handed to ContainerCreate
    adapter,      \* CreateClient: the client it constructed: "none" | "open" | "closed"
    removeOpts,   \* RemoveContainer: the container.RemoveOptions fields set in the call
    failed        \* a remote call of this invocation has failed

vars == <<client, images, containers, initImages, everPulled, pulledOK, op, arg,
          pc, ret, retID, calls, ctxTimeout, expired, ticks, tickPending,
          wasAbsent, verifyErr, listOut, pullOut, readOut, stream, startOut,
          lastInspect, inspectID, ports, sentPortmap, adapter, removeOpts, failed>>

----------------------------------------------------------------------------
(* Bounds of the model *)

\* container IDs the daemon can hand out
NumContainers == 1
\* poll intervals in the start timeout (10s / 100ms in the code)
PollsPerTimeout == 3
\* chunks of a pull stream before its end
MaxChunks == 1

(* The image references the caller uses (those of TestClient) *)
httpEchoImage == "hashicorp/http-echo:latest"
madeupImage == "some/madeup:image"
Images == {httpEchoImage, madeupImage}
ContainerIDs == 1..NumContainers

(* Timeouts, in seconds *)
dockerConnectTimeout == 10
dockerImageVerifyTimeout == 10
dockerPullTimeout == 60
dockerCreateContainerTimeout == 10
dockerStartContainerTimeout == 10
dockerRemoveContainerTimeout == 10
dockerRemoveImageTimeout == 10

(* The package errors, and the causes the adapter gives *)
ErrCreatingDockerClient == "ErrCreatingDockerClient"
ErrConnectingToDocker == "ErrConnectingToDocker"
ErrListingImages == "ErrListingImages"
ErrImageNotPresent == "ErrImageNotPresent"
ErrReadingPulledImage == "ErrReadingPulledImage"
ErrPullingImage == "ErrPullingImage"
ErrCreatingContainer == "ErrCreatingContainer"
ErrStartingContainer == "ErrStartingContainer"
ErrTimeout == "ErrTimeout"
ErrPortMap == "ErrPortMap"

PackageErrors == {ErrCreatingDockerClient, ErrConnectingToDocker, ErrListingImages,
                  ErrImageNotPresent, ErrReadingPulledImage, ErrPullingImage,
                  ErrCreatingContainer, ErrStartingContainer, ErrTimeout, ErrPortMap}

Nil == {}
Pending == {"pending"}
Join(e, cause) == {e, cause}

Kinds == {"ping", "list", "pull", "read", "create", "start", "inspect",
          "removeContainer", "removeImage"}

NoCalls == [k \in Kinds |-> 0]
Issue(k) == [calls EXCEPT ![k] = @ + 1]

(* What a remote call made under the live context fails with: a call made   *)
(* or still in flight after the deadline is aborted with the context's      *)
(* error, before it any failure is the adapter's own.                       *)
Cause == IF expired THEN "DeadlineExceeded" ELSE "AdapterError"

(* The answers open to a remote call: it can succeed only before the deadline *)
Answers == IF expired THEN {"error"} ELSE {"ok", "error"}

----------------------------------------------------------------------------
(* Port strings: sequences of characters, 0..9 the digits, larger codes letters *)

IsDigit(c) == c \in 0..9

PortABC == <<10, 11, 12>>
Port5678 == <<5, 6, 7, 8>>
Port80 == <<8, 0>>
Port8080 == <<8, 0, 8, 0>>

HostPortStrings == {Port8080, Port80, PortABC}
ContPortStrings == {Port5678, PortABC}

RECURSIVE ParseUint(_, _)
ParseUint(s, acc) ==
    IF s = <<>> THEN acc
    ELSE IF ~IsDigit(Head(s)) THEN -1
    ELSE IF acc * 10 + Head(s) > 65535 THEN -1
    ELSE ParseUint(Tail(s), acc * 10 + Head(s))

(* nat.NewPort("tcp", s): the port token, or -1 when s is no port *)
NewPort(s) == IF s = <<>> THEN -1 ELSE ParseUint(s, 0)

(* The ports arguments tried: every map from some of the host ports *)
PortMaps == UNION {[H -> ContPortStrings] : H \in SUBSET HostPortStrings}

Orders(S) == {o \in [1..Cardinality(S) -> S] : \A x \in S : \E i \in DOMAIN o : o[i] = x}

(* The loop over the ports map, visiting the host ports in the order given: *)
(* the port map built so far, with ok = FALSE from the first container port *)
(* that does not parse.                                                     *)
RECURSIVE Translate_SkipInvalid(_, _, _)
Translate_SkipInvalid(p, order, portmap) ==
    IF order = <<>> THEN [ok |-> TRUE, portmap |-> portmap]
    ELSE LET hPort == Head(order)
             containerPort == NewPort(p[hPort])
         IN IF containerPort = -1 THEN Translate_SkipInvalid(p, Tail(order), portmap)
            ELSE Translate_SkipInvalid(p, Tail(order),
                     [c \in DOMAIN portmap \cup {containerPort} |->
                         IF c = containerPort
                         THEN <<[HostIP |-> "0.0.0.0", HostPort |-> hPort]>>
                         ELSE portmap[c]])

RECURSIVE Translate(_, _, _)
Translate(p, order, portmap) ==
    IF order = <<>> THEN [ok |-> TRUE, portmap |-> portmap]
    ELSE LET hPort == Head(order)
             containerPort == NewPort(p[hPort])
         IN IF containerPort = -1 THEN [ok |-> FALSE, portmap |-> portmap]
            ELSE Translate(p, Tail(order),
                     [c \in DOMAIN portmap \cup {containerPort} |->
                         IF c = containerPort
                         THEN <<[HostIP |-> "0.0.0.0", HostPort |-> hPort]>>
                         ELSE portmap[c]])

EmptyPortmap == [c \in {} |-> <<>>]

(* What the loop can come to for each ports argument, over the orders in   *)
(* which range may visit the map                                           *)
TranslationRuns ==
    [p \in PortMaps |-> {Translate(p, order, EmptyPortmap) : order \in Orders(DOMAIN p)}]

----------------------------------------------------------------------------
(* Wrapper entry: a wrapper is entered when the caller has taken the       *)
(* previous one's result; nothing of the previous invocation is kept.      *)
Enter(o, a) ==
    /\ pc = "idle"
    /\ op' = o
    /\ arg' = a
    /\ retID' = 0
    /\ ticks' = 0
    /\ tickPending' = FALSE
    /\ verifyErr' = Pending
    /\ listOut' = "none"
    /\ pullOut' = "none"
    /\ readOut' = "none"
    /\ stream' = 0
    /\ startOut' = "none"
    /\ lastInspect' = "none"
    /\ inspectID' = 0
    /\ failed' = FALSE

(* context.WithTimeout(context.Background(), timeout), then the first remote call k *)
FirstCall(k, p, timeout) ==
    /\ pc' = p
    /\ ret' = Nil
    /\ calls' = [NoCalls EXCEPT ![k] = 1]
    /\ ctxTimeout' = timeout
    /\ expired' = FALSE

(* Wrapper return: the deferred cancel releases the context *)
Return(e) ==
    /\ pc' = "done"
    /\ ret' = e
    /\ ctxTimeout' = 0
    /\ expired' = FALSE

Init ==
    /\ client = "nil"
    /\ images \in SUBSET Images
    /\ initImages = images
    /\ containers = [c \in ContainerIDs |-> "absent"]
    /\ everPulled = {}
    /\ pulledOK = {}
    /\ op = "none"
    /\ arg = 0
    /\ pc = "done"
    /\ ret = Nil
    /\ retID = 0
    /\ calls = NoCalls
    /\ ctxTimeout = 0
    /\ expired = FALSE
    /\ ticks = 0
    /\ tickPending = FALSE
    /\ wasAbsent = FALSE
    /\ verifyErr = Pending
    /\ listOut = "none"
    /\ pullOut = "none"
    /\ readOut = "none"
    /\ stream = 0
    /\ startOut = "none"
    /\ lastInspect = "none"
    /\ inspectID = 0
    /\ ports = EmptyPortmap
    /\ sentPortmap = EmptyPortmap
    /\ adapter = "none"
    /\ removeOpts = {}
    /\ failed = FALSE

----------------------------------------------------------------------------
(* The daemon and the histories, when an action leaves them alone *)

daemon == <<images, containers>>
history == <<initImages, everPulled, pulledOK>>
pullVars == <<verifyErr, listOut, pullOut, readOut, stream>>
startVars == <<startOut, lastInspect, inspectID, ticks, tickPending>>
createVars == <<ports, sentPortmap, adapter, removeOpts>>

(* An invocation that is neither PullImage nor CreateContainer *)
Plain ==
    /\ wasAbsent' = FALSE
    /\ ports' = EmptyPortmap
    /\ sentPortmap' = EmptyPortmap
    /\ adapter' = "none"
    /\ removeOpts' = {}

(* The deadline of the live context passes while a remote call is in flight. *)
(* (StartContainer's context expires by its ticks, see Tick.)                *)
Expire ==
    /\ pc \notin {"done", "idle"}
    /\ op # "StartContainer"
    /\ ctxTimeout > 0
    /\ ~expired
    /\ expired' = TRUE
    /\ UNCHANGED <<failed, client, daemon, history, op, arg, pc, ret, retID, calls,
                   ctxTimeout, wasAbsent, pullVars, startVars, createVars>>

(* The caller takes the result of the wrapper that returned and goes on;  *)
(* the wrapper's locals are gone.                                          *)
CallerContinues ==
    /\ pc = "done"
    /\ pc' = "idle"
    /\ op' = "none"
    /\ arg' = 0
    /\ ret' = Nil
    /\ retID' = 0
    /\ calls' = NoCalls
    /\ ticks' = 0
    /\ tickPending' = FALSE
    /\ wasAbsent' = FALSE
    /\ verifyErr' = Pending
    /\ listOut' = "none"
    /\ pullOut' = "none"
    /\ readOut' = "none"
    /\ stream' = 0
    /\ startOut' = "none"
    /\ lastInspect' = "none"
    /\ inspectID' = 0
    /\ ports' = EmptyPortmap
    /\ sentPortmap' = EmptyPortmap
    /\ adapter' = "none"
    /\ removeOpts' = {}
    /\ failed' = FALSE
    /\ UNCHANGED <<client, daemon, history, ctxTimeout, expired>>

----------------------------------------------------------------------------
(* CreateClient *)

CreateClientInvoke ==
    /\ client = "nil"
    /\ Enter("CreateClient", 0)
    /\ wasAbsent' = FALSE
    /\ ports' = EmptyPortmap
    /\ sentPortmap' = EmptyPortmap
    /\ removeOpts' = {}
    /\ \/ \* client.NewClientWithOpts fails
          /\ adapter' = "none"
          /\ Return(Join(ErrCreatingDockerClient, "AdapterError"))
          /\ calls' = NoCalls
       \/ \* the client is constructed; ping it under the connect timeout
          /\ adapter' = "open"
          /\ FirstCall("ping", "ping", dockerConnectTimeout)
    /\ UNCHANGED <<client, daemon, history>>

PingErr_AsConstruction == Join(ErrCreatingDockerClient, Cause)

(* What CreateClient returns when the ping fails *)
PingErr == Join(ErrConnectingToDocker, Cause)

PingReturn ==
    /\ op = "CreateClient"
    /\ pc = "ping"
    /\ \E a \in Answers :
          IF a = "error"
          THEN /\ failed' = TRUE
               /\ Return(PingErr)
               /\ UNCHANGED <<client, retID>>
          ELSE /\ UNCHANGED failed
               /\ Return(Nil)
               /\ client' = "held"
               /\ retID' = 1
    /\ UNCHANGED <<daemon, history, op, arg, calls, wasAbsent, pullVars,
                   startVars, createVars>>

----------------------------------------------------------------------------
(* VerifyHaveImage *)

(* client.ImageList with the filter reference=ref: the matching images *)
ImageList_NoFilter(ref) == images

ImageList(ref) == {i \in images : i = ref}

(* The listing's answer as recorded in listOut *)
ListOutcome(a, ref) ==
    IF a = "error" THEN "error"
    ELSE IF Cardinality(ImageList(ref)) > 0 THEN "found" ELSE "empty"

VerifyHaveImageErr_Conflate(a, ref) ==
    IF a = "error" THEN {ErrImageNotPresent}
    ELSE IF Cardinality(ImageList(ref)) > 0 THEN Nil
    ELSE {ErrImageNotPresent}

(* What VerifyHaveImage returns when ImageList answered a *)
VerifyHaveImageErr(a, ref) ==
    IF a = "error" THEN Join(ErrListingImages, Cause)
    ELSE IF Cardinality(ImageList(ref)) > 0 THEN Nil
    ELSE {ErrImageNotPresent}

VerifyHaveImageInvoke ==
    /\ client = "held"
    /\ \E ref \in Images : Enter("VerifyHaveImage", ref)
    /\ Plain
    /\ FirstCall("list", "list", dockerImageVerifyTimeout)
    /\ UNCHANGED <<client, daemon, history>>

VerifyHaveImageReturn ==
    /\ op = "VerifyHaveImage"
    /\ pc = "list"
    /\ \E a \in Answers :
          /\ listOut' = ListOutcome(a, arg)
          /\ failed' = (a = "error")
          /\ Return(VerifyHaveImageErr(a, arg))
    /\ UNCHANGED <<client, daemon, history, op, arg, retID, calls, wasAbsent,
                   verifyErr, pullOut, readOut, stream, startVars, createVars>>

----------------------------------------------------------------------------
(* PullImage *)

(* pulledOK once PullImage returns e *)
PulledOKAfter(e) ==
    IF e = Nil /\ wasAbsent THEN pulledOK \cup {arg} ELSE pulledOK

PullImageInvoke ==
    /\ client = "held"
    /\ \E ref \in Images :
          /\ Enter("PullImage", ref)
          /\ everPulled' = everPulled \cup {ref}
          /\ wasAbsent' = (ref \notin images)
    /\ ports' = EmptyPortmap
    /\ sentPortmap' = EmptyPortmap
    /\ adapter' = "none"
    /\ removeOpts' = {}
    /\ FirstCall("list", "list", dockerImageVerifyTimeout)
    /\ UNCHANGED <<client, daemon, initImages, pulledOK>>

ShouldPull_Always(err) == TRUE

(* err == nil returns at once; anything else goes on to pull *)
ShouldPull(err) == err # Nil

PullVerifyReturn_SharedDeadline ==
    /\ op = "PullImage"
    /\ pc = "list"
    /\ \E a \in Answers :
          LET err == VerifyHaveImageErr(a, arg) IN
          /\ listOut' = ListOutcome(a, arg)
          /\ verifyErr' = err
          /\ failed' = (a = "error")
          /\ IF ShouldPull(err)
             THEN /\ pc' = "pull"
                  /\ ret' = Nil
                  /\ UNCHANGED <<ctxTimeout, expired>>
                  /\ calls' = Issue("pull")
                  /\ UNCHANGED pulledOK
             ELSE /\ Return(Nil)
                  /\ pulledOK' = PulledOKAfter(Nil)
                  /\ UNCHANGED calls
    /\ UNCHANGED <<client, daemon, initImages, everPulled, op, arg, retID,
                   wasAbsent, pullOut, readOut, stream, startVars, createVars>>

(* VerifyHaveImage returns into PullImage; unless it returned nil, the pull *)
(* context is made and ImagePull is issued.                                 *)
PullVerifyReturn ==
    /\ op = "PullImage"
    /\ pc = "list"
    /\ \E a \in Answers :
          LET err == VerifyHaveImageErr(a, arg) IN
          /\ listOut' = ListOutcome(a, arg)
          /\ verifyErr' = err
          /\ failed' = (a = "error")
          /\ IF ShouldPull(err)
             THEN /\ pc' = "pull"
                  /\ ret' = Nil
                  /\ ctxTimeout' = dockerPullTimeout
                  /\ expired' = FALSE
                  /\ calls' = Issue("pull")
                  /\ UNCHANGED pulledOK
             ELSE /\ Return(Nil)
                  /\ pulledOK' = PulledOKAfter(Nil)
                  /\ UNCHANGED calls
    /\ UNCHANGED <<client, daemon, initImages, everPulled, op, arg, retID,
                   wasAbsent, pullOut, readOut, stream, startVars, createVars>>

PullReturn_NoDrain ==
    /\ op = "PullImage"
    /\ pc = "pull"
    /\ \E a \in Answers :
          IF a = "error"
          THEN /\ failed' = TRUE
               /\ pullOut' = "error"
               /\ Return(Join(ErrPullingImage, Cause))
               /\ UNCHANGED <<stream, pulledOK>>
          ELSE /\ UNCHANGED failed
               /\ pullOut' = "ok"
               /\ stream' \in 0..MaxChunks
               /\ Return(Nil)
               /\ pulledOK' = PulledOKAfter(Nil)
    /\ UNCHANGED <<client, daemon, initImages, everPulled, op, arg, retID, calls,
                   wasAbsent, verifyErr, listOut, readOut, startVars, createVars>>

(* ImagePull answers: an error is returned as ErrPullingImage, a stream is *)
(* handed to io.Copy.                                                      *)
PullReturn ==
    /\ op = "PullImage"
    /\ pc = "pull"
    /\ \E a \in Answers :
          IF a = "error"
          THEN /\ failed' = TRUE
               /\ pullOut' = "error"
               /\ Return(Join(ErrPullingImage, Cause))
               /\ UNCHANGED stream
          ELSE /\ UNCHANGED failed
               /\ pullOut' = "ok"
               /\ stream' \in 0..MaxChunks
               /\ pc' = "read"
               /\ UNCHANGED <<ret, ctxTimeout, expired>>
    /\ UNCHANGED <<client, daemon, history, op, arg, retID, calls, wasAbsent,
                   verifyErr, listOut, readOut, startVars, createVars>>

ReadErr_AsPull == Join(ErrPullingImage, Cause)

(* What PullImage returns when io.Copy fails *)
ReadErr == Join(ErrReadingPulledImage, Cause)

(* One Read of io.Copy(io.Discard, image): a chunk, the end of the stream  *)
(* (the daemon has the image once the stream is exhausted), or a failure.  *)
ReadStream ==
    /\ op = "PullImage"
    /\ pc = "read"
    /\ calls' = Issue("read")
    /\ \E a \in Answers :
          IF a = "error"
          THEN /\ failed' = TRUE
               /\ readOut' = "error"
               /\ Return(ReadErr)
               /\ UNCHANGED <<stream, images, pulledOK>>
          ELSE IF stream > 0
          THEN /\ UNCHANGED failed
               /\ stream' = stream - 1
               /\ UNCHANGED <<readOut, pc, ret, ctxTimeout, expired, images, pulledOK>>
          ELSE /\ UNCHANGED failed
               /\ readOut' = "eof"
               /\ images' = images \cup {arg}
               /\ Return(Nil)
               /\ pulledOK' = PulledOKAfter(Nil)
               /\ UNCHANGED stream
    /\ UNCHANGED <<client, containers, initImages, everPulled, op, arg, retID,
                   wasAbsent, verifyErr, listOut, pullOut, startVars, createVars>>

----------------------------------------------------------------------------
(* CreateContainer *)

(* The ports loop runs without a remote call; a port that does not parse   *)
(* returns at once, otherwise ContainerCreate is issued with the port map. *)
CreateContainerInvoke ==
    /\ client = "held"
    /\ \E img \in Images : Enter("CreateContainer", img)
    /\ wasAbsent' = FALSE
    /\ adapter' = "none"
    /\ removeOpts' = {}
    /\ \E p \in PortMaps : \E t \in TranslationRuns[p] :
          /\ ports' = p
          /\ IF t.ok
             THEN /\ sentPortmap' = t.portmap
                  /\ FirstCall("create", "create", dockerCreateContainerTimeout)
             ELSE /\ sentPortmap' = EmptyPortmap
                  /\ Return(Join(ErrPortMap, "ParseError"))
                  /\ calls' = NoCalls
    /\ UNCHANGED <<client, daemon, history>>

FreeIDs == {c \in ContainerIDs : containers[c] = "absent"}

CreateReturn_Placeholder ==
    /\ op = "CreateContainer"
    /\ pc = "create"
    /\ \E a \in Answers :
          IF a = "error" \/ FreeIDs = {} \/ arg \notin images
          THEN /\ failed' = TRUE
               /\ Return(Join(ErrCreatingContainer, Cause))
               /\ retID' = 1
               /\ UNCHANGED containers
          ELSE \E id \in FreeIDs :
               /\ UNCHANGED failed
               /\ containers' = [containers EXCEPT ![id] = "created"]
               /\ retID' = id
               /\ Return(Nil)
    /\ UNCHANGED <<client, images, history, op, arg, calls, wasAbsent, pullVars,
                   startVars, createVars>>


CreateReturn ==
    /\ op = "CreateContainer"
    /\ pc = "create"
    /\ \E a \in Answers :
          IF a = "error" \/ FreeIDs = {} \/ arg \notin images
          THEN /\ failed' = TRUE
               /\ Return(Join(ErrCreatingContainer, Cause))
               /\ UNCHANGED <<retID, containers>>
          ELSE \E id \in FreeIDs :
               /\ UNCHANGED failed
               /\ containers' = [containers EXCEPT ![id] = "created"]
               /\ retID' = id
               /\ Return(Nil)
    /\ UNCHANGED <<client, images, history, op, arg, calls, wasAbsent, pullVars,
                   startVars, createVars>>

----------------------------------------------------------------------------
(* StartContainer *)

StartContainerInvoke ==
    /\ client = "held"
    /\ \E id \in ContainerIDs : Enter("StartContainer", id)
    /\ Plain
    /\ FirstCall("start", "start", dockerStartContainerTimeout)
    /\ UNCHANGED <<client, daemon, history>>

Tick_Stopped ==
    /\ op = "StartContainer"
    /\ pc # "done"
    /\ \/ ticks < PollsPerTimeout
       \/ pc # "start" /\ ~tickPending
    /\ UNCHANGED <<ticks, expired, tickPending>>
    /\ UNCHANGED <<failed, client, daemon, history, op, arg, pc, ret, retID, calls,
                   ctxTimeout, wasAbsent, pullVars, startOut, lastInspect,
                   inspectID, createVars>>

(* One poll interval (100ms) passes.  The start context expires when       *)
(* PollsPerTimeout of them have passed; the ticker, once made, drops a     *)
(* tick into ticker.C (capacity one).                                      *)
Tick ==
    /\ op = "StartContainer"
    /\ pc # "done"
    /\ \/ ticks < PollsPerTimeout
       \/ pc # "start" /\ ~tickPending
    /\ ticks' = IF ticks < PollsPerTimeout THEN ticks + 1 ELSE ticks
    /\ expired' = (ticks' >= PollsPerTimeout)
    /\ tickPending' = (tickPending \/ pc # "start")
    /\ UNCHANGED <<failed, client, daemon, history, op, arg, pc, ret, retID, calls,
                   ctxTimeout, wasAbsent, pullVars, startOut, lastInspect,
                   inspectID, createVars>>

StartReturn_NoPoll ==
    /\ op = "StartContainer"
    /\ pc = "start"
    /\ \E a \in Answers :
          IF a = "error" \/ containers[arg] = "absent"
          THEN /\ failed' = TRUE
               /\ startOut' = "error"
               /\ Return(Join(ErrStartingContainer, Cause))
               /\ UNCHANGED containers
          ELSE /\ UNCHANGED failed
               /\ startOut' = "ok"
               /\ containers' = [containers EXCEPT ![arg] = "started"]
               /\ Return(Nil)
    /\ UNCHANGED <<client, images, history, op, arg, retID, calls, wasAbsent,
                   pullVars, lastInspect, inspectID, ticks, tickPending, createVars>>

StartReturn_IgnoreErr ==
    /\ op = "StartContainer"
    /\ pc = "start"
    /\ \E a \in Answers :
          IF a = "error" \/ containers[arg] = "absent"
          THEN /\ failed' = TRUE
               /\ startOut' = "error"
               /\ pc' = "select"
               /\ UNCHANGED <<containers, ret, ctxTimeout, expired>>
          ELSE /\ UNCHANGED failed
               /\ startOut' = "ok"
               /\ containers' = [containers EXCEPT ![arg] = "started"]
               /\ pc' = "select"
               /\ UNCHANGED <<ret, ctxTimeout, expired>>
    /\ UNCHANGED <<client, images, history, op, arg, retID, calls, wasAbsent,
                   pullVars, lastInspect, inspectID, ticks, tickPending, createVars>>

(* ContainerStart answers: an error is returned as ErrStartingContainer,   *)
(* otherwise the ticker is made and the select loop entered.               *)
StartReturn ==
    /\ op = "StartContainer"
    /\ pc = "start"
    /\ \E a \in Answers :
          IF a = "error" \/ containers[arg] = "absent"
          THEN /\ failed' = TRUE
               /\ startOut' = "error"
               /\ Return(Join(ErrStartingContainer, Cause))
               /\ UNCHANGED containers
          ELSE /\ UNCHANGED failed
               /\ startOut' = "ok"
               /\ containers' = [containers EXCEPT ![arg] = "started"]
               /\ pc' = "select"
               /\ UNCHANGED <<ret, ctxTimeout, expired>>
    /\ UNCHANGED <<client, images, history, op, arg, retID, calls, wasAbsent,
                   pullVars, lastInspect, inspectID, ticks, tickPending, createVars>>

(* case <-ticker.C: ContainerInspect is issued under the start context *)
SelectTick ==
    /\ op = "StartContainer"
    /\ pc = "select"
    /\ tickPending
    /\ tickPending' = FALSE
    /\ pc' = "inspect"
    /\ calls' = Issue("inspect")
    /\ inspectID' = arg
    /\ UNCHANGED <<failed, client, daemon, history, op, arg, ret, retID, ctxTimeout,
                   expired, ticks, wasAbsent, pullVars, startOut, lastInspect,
                   createVars>>

(* case <-ctx.Done() *)
SelectDone ==
    /\ op = "StartContainer"
    /\ pc = "select"
    /\ expired
    /\ Return({ErrTimeout})
    /\ UNCHANGED <<failed, client, daemon, history, op, arg, retID, calls, wasAbsent,
                   pullVars, startVars, createVars>>

InspectReturn_Retry ==
    /\ op = "StartContainer"
    /\ pc = "inspect"
    /\ \E a \in Answers : \E running \in BOOLEAN :
          IF a = "error"
          THEN /\ failed' = TRUE
               /\ lastInspect' = IF expired THEN "deadline" ELSE "error"
               /\ pc' = "select"
               /\ UNCHANGED <<ret, ctxTimeout, expired>>
          ELSE IF running
          THEN /\ UNCHANGED failed
               /\ lastInspect' = "running"
               /\ Return(Nil)
          ELSE /\ UNCHANGED failed
               /\ lastInspect' = "notrunning"
               /\ pc' = "select"
               /\ UNCHANGED <<ret, ctxTimeout, expired>>
    /\ UNCHANGED <<client, daemon, history, op, arg, retID, calls, wasAbsent,
                   pullVars, startOut, inspectID, ticks, tickPending, createVars>>

(* ContainerInspect answers: an error is returned as ErrStartingContainer, *)
(* State.Running returns nil, anything else goes round the loop.           *)
InspectReturn ==
    /\ op = "StartContainer"
    /\ pc = "inspect"
    /\ \E a \in Answers : \E running \in BOOLEAN :
          IF a = "error"
          THEN /\ failed' = TRUE
               /\ lastInspect' = IF expired THEN "deadline" ELSE "error"
               /\ Return(Join(ErrStartingContainer, Cause))
          ELSE IF running
          THEN /\ UNCHANGED failed
               /\ lastInspect' = "running"
               /\ Return(Nil)
          ELSE /\ UNCHANGED failed
               /\ lastInspect' = "notrunning"
               /\ pc' = "select"
               /\ UNCHANGED <<ret, ctxTimeout, expired>>
    /\ UNCHANGED <<client, daemon, history, op, arg, retID, calls, wasAbsent,
                   pullVars, startOut, inspectID, ticks, tickPending, createVars>>

----------------------------------------------------------------------------
(* RemoveContainer and RemoveImage: the adapter's error is returned as it is *)

(* container.RemoveOptions{RemoveVolumes: true, Force: true} *)
RemoveOptions == {"RemoveVolumes", "Force"}

RemoveErr_Wrapped == Join(ErrStartingContainer, Cause)

(* What RemoveContainer returns when ContainerRemove fails: the error itself *)
RemoveErr == {Cause}

RemoveContainerInvoke ==
    /\ client = "held"
    /\ \E id \in ContainerIDs : Enter("RemoveContainer", id)
    /\ wasAbsent' = FALSE
    /\ ports' = EmptyPortmap
    /\ sentPortmap' = EmptyPortmap
    /\ adapter' = "none"
    /\ removeOpts' = RemoveOptions
    /\ FirstCall("removeContainer", "removeContainer", dockerRemoveContainerTimeout)
    /\ UNCHANGED <<client, daemon, history>>

RemoveContainerReturn ==
    /\ op = "RemoveContainer"
    /\ pc = "removeContainer"
    /\ \E a \in Answers :
          IF \/ a = "error"
             \/ containers[arg] = "absent"
             \/ containers[arg] = "started" /\ "Force" \notin removeOpts
          THEN /\ failed' = TRUE
               /\ Return(RemoveErr)
               /\ UNCHANGED containers
          ELSE /\ UNCHANGED failed
               /\ containers' = [containers EXCEPT ![arg] = "absent"]
               /\ Return(Nil)
    /\ UNCHANGED <<client, images, history, op, arg, retID, calls, wasAbsent,
                   pullVars, startVars, createVars>>

RemoveImageInvoke ==
    /\ client = "held"
    /\ \E ref \in Images :
          /\ Enter("RemoveImage", ref)
          /\ pulledOK' = pulledOK \ {ref}
    /\ Plain
    /\ FirstCall("removeImage", "removeImage", dockerRemoveImageTimeout)
    /\ UNCHANGED <<client, daemon, initImages, everPulled>>

RemoveImageReturn ==
    /\ op = "RemoveImage"
    /\ pc = "removeImage"
    /\ \E a \in Answers :
          IF a = "error" \/ arg \notin images
          THEN /\ failed' = TRUE
               /\ Return({Cause})
               /\ UNCHANGED images
          ELSE /\ UNCHANGED failed
               /\ images' = images \ {arg}
               /\ Return(Nil)
    /\ UNCHANGED <<client, containers, history, op, arg, retID, calls, wasAbsent,
                   pullVars, startVars, createVars>>

----------------------------------------------------------------------------
Next ==
    \/ CallerContinues
    \/ Expire
    \/ CreateClientInvoke
    \/ PingReturn
    \/ VerifyHaveImageInvoke
    \/ VerifyHaveImageReturn
    \/ PullImageInvoke
    \/ PullVerifyReturn
    \/ PullReturn
    \/ ReadStream
    \/ CreateContainerInvoke
    \/ CreateReturn
    \/ StartContainerInvoke
    \/ Tick
    \/ StartReturn
    \/ SelectTick
    \/ SelectDone
    \/ InspectReturn
    \/ RemoveContainerInvoke
    \/ RemoveContainerReturn
    \/ RemoveImageInvoke
    \/ RemoveImageReturn

Spec == Init /\ [][Next]_vars

(* The timers fire, the adapter answers or aborts every call, and select   *)
(* takes a case that is ready.                                             *)
FairSpec ==
    /\ Spec
    /\ WF_vars(Tick)
    /\ WF_vars(StartReturn)
    /\ WF_vars(InspectReturn)
    /\ WF_vars(SelectTick \/ SelectDone)

----------------------------------------------------------------------------
(* Properties *)

OnlyCalls(ks) == \A k \in Kinds \ ks : calls[k] = 0

(* C1: VerifyHaveImage(ref) issues one image-list call filtered by ref and *)
(* nothing else; it returns nil exactly when that call succeeded and the   *)
(* daemon has ref, ErrImageNotPresent when the call succeeded with no      *)
(* match, and ErrListingImages, never ErrImageNotPresent, when the call    *)
(* failed (adapter error or verify deadline).                              *)
C1_VerifyContract ==
    (op = "VerifyHaveImage" /\ pc = "done") =>
        /\ calls["list"] = 1
        /\ OnlyCalls({"list"})
        /\ listOut # "none"
        /\ (ret = Nil <=> (listOut # "error" /\ arg \in images))
        /\ (listOut = "found" <=> (listOut # "error" /\ arg \in images))
        /\ (listOut = "empty" => ret = {ErrImageNotPresent})
        /\ (listOut = "error" => ErrListingImages \in ret /\ ErrImageNotPresent \notin ret)

C1_Witness ==
    /\ op = "VerifyHaveImage"
    /\ pc = "done"
    /\ listOut = "error"
    /\ arg \notin images
    /\ ret = {ErrListingImages, "DeadlineExceeded"}

(* C2 as stated: for a reference that was not in the daemon's initial      *)
(* image set and that PullImage was never invoked with, VerifyHaveImage    *)
(* returns ErrImageNotPresent.                                             *)
C2_NeverPulledNotPresent ==
    (op = "VerifyHaveImage" /\ pc = "done" /\ arg \notin initImages /\ arg \notin everPulled)
        => ret = {ErrImageNotPresent}

(* C2 amended: for such a reference VerifyHaveImage never returns nil; it  *)
(* returns ErrImageNotPresent unless the list call itself failed, and then *)
(* ErrListingImages.                                                       *)
C2_NeverPulledNotPresentOrListing ==
    (op = "VerifyHaveImage" /\ pc = "done" /\ arg \notin initImages /\ arg \notin everPulled)
        => IF listOut = "error"
           THEN ErrListingImages \in ret /\ ErrImageNotPresent \notin ret
           ELSE ret = {ErrImageNotPresent}

C2_Witness ==
    /\ op = "VerifyHaveImage"
    /\ pc = "done"
    /\ arg \notin initImages
    /\ arg \notin everPulled
    /\ images # {}
    /\ everPulled # {}
    /\ ret = {ErrImageNotPresent}

(* C3: when PullImage's VerifyHaveImage failed with ErrListingImages,      *)
(* PullImage issues no ImagePull and returns that listing error; ImagePull *)
(* is issued only after the check returned ErrImageNotPresent.             *)
C3_NoPullOnListingError ==
    op = "PullImage" =>
        /\ (ErrListingImages \in verifyErr =>
                calls["pull"] = 0 /\ pc = "done" /\ ErrListingImages \in ret)
        /\ (calls["pull"] > 0 => verifyErr = {ErrImageNotPresent})

(* C4: when PullImage's VerifyHaveImage returned nil (the image is         *)
(* present), PullImage has returned nil without an ImagePull or a read,    *)
(* on the first and on every repeated invocation.                          *)
C4_PresentNoPull ==
    (op = "PullImage" /\ verifyErr = Nil) =>
        /\ arg \in images
        /\ calls["pull"] = 0
        /\ calls["read"] = 0
        /\ pc = "done"
        /\ ret = Nil

C4_Witness ==
    /\ op = "PullImage"
    /\ pc = "done"
    /\ verifyErr = Nil
    /\ ~wasAbsent
    /\ arg \in pulledOK
    /\ ret = Nil

(* C5 as stated: after PullImage(ref) on an absent image returned nil, and *)
(* with no RemoveImage(ref) since, VerifyHaveImage(ref) returns nil.       *)
C5_PulledThenPresent ==
    (op = "VerifyHaveImage" /\ pc = "done" /\ arg \in pulledOK) => ret = Nil

(* C5 amended: such a VerifyHaveImage(ref) never returns                   *)
(* ErrImageNotPresent; it returns nil unless the list call itself failed,  *)
(* and then ErrListingImages.  The daemon has the image throughout.        *)
C5_PulledThenPresentOrListing ==
    /\ pulledOK \subseteq images
    /\ (op = "VerifyHaveImage" /\ pc = "done" /\ arg \in pulledOK) =>
           IF listOut = "error"
           THEN ErrListingImages \in ret /\ ErrImageNotPresent \notin ret
           ELSE ret = Nil

C5_Witness ==
    /\ op = "VerifyHaveImage"
    /\ pc = "done"
    /\ arg \in pulledOK
    /\ arg \notin initImages
    /\ ret = Nil

(* C6: a PullImage that pulled returns nil only after ImagePull succeeded  *)
(* and the stream was read to its end; a failed ImagePull returns          *)
(* ErrPullingImage with no read of a stream; a failed read (the pull       *)
(* deadline included) returns ErrReadingPulledImage, neither nil nor       *)
(* ErrPullingImage.                                                        *)
C6_PullDrained ==
    op = "PullImage" =>
        /\ (pc = "done" /\ ret = Nil /\ calls["pull"] > 0) =>
               (pullOut = "ok" /\ readOut = "eof" /\ stream = 0 /\ calls["read"] >= 1)
        /\ pullOut = "error" =>
               (pc = "done" /\ ErrPullingImage \in ret /\ calls["read"] = 0 /\ readOut = "none")
        /\ readOut = "error" =>
               (pc = "done" /\ ret # Nil /\ ErrReadingPulledImage \in ret
                    /\ ErrPullingImage \notin ret /\ pullOut = "ok")

C6_Witness ==
    /\ op = "PullImage"
    /\ pc = "done"
    /\ readOut = "error"
    /\ calls["read"] >= 2
    /\ ret = {ErrReadingPulledImage, "DeadlineExceeded"}

(* C7: when ContainerStart succeeded and no inspect reported running       *)
(* (every inspect answered before the deadline said not running),          *)
(* StartContainer returns ErrTimeout.                                      *)
C7_NeverRunningTimesOut ==
    (op = "StartContainer" /\ pc = "done" /\ startOut = "ok"
        /\ lastInspect \in {"none", "notrunning", "deadline"})
        => ret = {ErrTimeout}

(* C8: StartContainer returns nil only after ContainerStart succeeded and  *)
(* a later ContainerInspect of the same ID reported running, and it        *)
(* returns at the first inspect that reports running.                      *)
C8_SuccessNeedsRunning ==
    op = "StartContainer" =>
        /\ (pc = "done" /\ ret = Nil) =>
               /\ startOut = "ok"
               /\ calls["start"] = 1
               /\ calls["inspect"] >= 1
               /\ inspectID = arg
               /\ lastInspect = "running"
        /\ lastInspect = "running" => (pc = "done" /\ ret = Nil)

C8_Witness ==
    /\ op = "StartContainer"
    /\ pc = "done"
    /\ ret = Nil
    /\ calls["inspect"] >= 2
    /\ lastInspect = "running"

(* C9: when ContainerStart failed, StartContainer has returned             *)
(* ErrStartingContainer without entering the poll loop: no inspect was     *)
(* issued, and the error is neither nil nor ErrTimeout.                    *)
C9_StartFailureTerminal ==
    (op = "StartContainer" /\ startOut = "error") =>
        /\ pc = "done"
        /\ ret # Nil
        /\ ErrStartingContainer \in ret
        /\ ErrTimeout \notin ret
        /\ calls["inspect"] = 0
        /\ lastInspect = "none"
        /\ ~tickPending

C9_Witness ==
    /\ op = "StartContainer"
    /\ pc = "done"
    /\ startOut = "error"
    /\ containers[arg] = "created"
    /\ ret = {ErrStartingContainer, "AdapterError"}

(* C10: the first ContainerInspect that fails ends StartContainer with     *)
(* ErrStartingContainer; no further inspect is issued, whatever time       *)
(* remains before the deadline.                                            *)
C10_InspectFailureTerminal ==
    /\ (op = "StartContainer" /\ lastInspect \in {"error", "deadline"}) =>
           /\ pc = "done"
           /\ ret # Nil
           /\ ErrStartingContainer \in ret
           /\ ErrTimeout \notin ret
    /\ (op = "StartContainer" /\ pc \in {"select", "inspect"}) =>
           lastInspect \in {"none", "notrunning"}

C10_Witness ==
    /\ op = "StartContainer"
    /\ pc = "done"
    /\ lastInspect = "error"
    /\ calls["inspect"] >= 2
    /\ ticks < PollsPerTimeout
    /\ ret = {ErrStartingContainer, "AdapterError"}

(* A port string that nat.NewPort does not accept *)
Malformed(str) == NewPort(str) = -1

HasInvalidContainerPort(p) == \E h \in DOMAIN p : Malformed(p[h])

(* C11: CreateContainer given a ports map with an invalid container port,  *)
(* whatever its other entries and the order they are visited in, has       *)
(* returned ErrPortMap with an empty ID, and no ContainerCreate (nor any   *)
(* other remote call) was issued and no port map handed over.              *)
C11_InvalidContainerPortAborts ==
    (op = "CreateContainer" /\ HasInvalidContainerPort(ports)) =>
        /\ pc = "done"
        /\ ErrPortMap \in ret
        /\ ErrCreatingContainer \notin ret
        /\ retID = 0
        /\ calls = NoCalls
        /\ sentPortmap = EmptyPortmap

C11_Witness ==
    /\ op = "CreateContainer"
    /\ pc = "done"
    /\ Cardinality(DOMAIN ports) = 3
    /\ Cardinality({h \in DOMAIN ports : Malformed(ports[h])}) = 1
    /\ ret = {ErrPortMap, "ParseError"}

(* C12: every malformed port string of the ports map, host port key or     *)
(* container port value, makes CreateContainer return ErrPortMap without a *)
(* ContainerCreate.                                                        *)
C12_MalformedPortFails ==
    (op = "CreateContainer"
        /\ \E h \in DOMAIN ports : Malformed(h) \/ Malformed(ports[h])) =>
        /\ pc = "done"
        /\ ErrPortMap \in ret
        /\ calls["create"] = 0

(* C13: CreateContainer never returns an ID together with an error: every  *)
(* failure returns the empty ID with ErrPortMap or ErrCreatingContainer,   *)
(* and an ID is returned only as the one a successful ContainerCreate made.*)
C13_NoHandleWithError ==
    (op = "CreateContainer" /\ pc = "done") =>
        /\ ret # Nil =>
               /\ retID = 0
               /\ ErrPortMap \in ret \/ ErrCreatingContainer \in ret
               /\ ErrCreatingContainer \in ret <=> failed
        /\ retID # 0 =>
               /\ ret = Nil
               /\ calls["create"] = 1
               /\ ~failed
               /\ retID \in ContainerIDs
               /\ containers[retID] = "created"
        /\ ret = Nil => retID # 0

C13_Witness ==
    /\ op = "CreateContainer"
    /\ pc = "done"
    /\ retID = 0
    /\ ports # EmptyPortmap
    /\ ret = {ErrCreatingContainer, "DeadlineExceeded"}

(* C14: within one invocation every remote operation other than the poll's *)
(* inspect is called at most once, the first failed remote call ends the   *)
(* invocation with an error, and inspect is repeated only after an inspect *)
(* that succeeded and reported not running.                                *)
C14_NoRetries ==
    /\ \A k \in Kinds \ {"inspect", "read"} : calls[k] <= 1
    /\ failed => (pc = "done" /\ ret # Nil)
    /\ calls["inspect"] > 0 => op = "StartContainer"
    /\ (calls["inspect"] > 1 /\ pc = "inspect") => lastInspect = "notrunning"

(* C15: CreateClient pings only a client it constructed, and once: a       *)
(* construction failure returns ErrCreatingDockerClient with no ping, a    *)
(* ping failure returns ErrConnectingToDocker, no error matches both, and  *)
(* a client is returned exactly when the ping succeeded.                   *)
C15_CreateClientKinds ==
    op = "CreateClient" =>
        /\ calls["ping"] <= 1
        /\ calls["ping"] = 1 <=> adapter = "open"
        /\ (pc = "done" /\ adapter = "none") =>
               (ErrCreatingDockerClient \in ret /\ retID = 0 /\ client = "nil")
        /\ failed => (pc = "done" /\ ErrConnectingToDocker \in ret)
        /\ ~(ErrCreatingDockerClient \in ret /\ ErrConnectingToDocker \in ret)
        /\ pc = "done" =>
               /\ retID # 0 <=> (calls["ping"] = 1 /\ ~failed)
               /\ retID # 0 <=> ret = Nil
               /\ retID # 0 <=> client = "held"

C15_Witness ==
    /\ op = "CreateClient"
    /\ pc = "done"
    /\ calls["ping"] = 1
    /\ client = "nil"
    /\ ret = {ErrConnectingToDocker, "DeadlineExceeded"}

(* C16: RemoveContainer issues exactly one ContainerRemove, with Force and *)
(* RemoveVolumes set, and returns what it answered: nil when it succeeded, *)
(* its own error, wrapped in no package error, when it failed.             *)
C16_RemovePassthrough ==
    op = "RemoveContainer" =>
        /\ calls["removeContainer"] = 1
        /\ OnlyCalls({"removeContainer"})
        /\ removeOpts = {"RemoveVolumes", "Force"}
        /\ pc = "done" =>
               /\ ret # Nil <=> failed
               /\ ret \cap PackageErrors = {}
               /\ failed => ret \in {{"AdapterError"}, {"DeadlineExceeded"}}
               /\ ~failed => containers[arg] = "absent"

C16_Witness ==
    /\ op = "RemoveContainer"
    /\ pc = "done"
    /\ failed
    /\ containers[arg] = "absent"
    /\ ret = {"AdapterError"}

(* The state of StartContainer's state machine *)
StartState ==
    IF pc = "start" THEN "Requested"
    ELSE IF pc \in {"select", "inspect"} THEN "Starting"
    ELSE IF ret = Nil THEN "Running"
    ELSE IF ret = {ErrTimeout} THEN "TimedOut"
    ELSE "failed"

StartTransitions ==
    {<<"Requested", "Starting">>, <<"Starting", "Running">>, <<"Requested", "failed">>,
     <<"Starting", "failed">>, <<"Starting", "TimedOut">>,
     <<"Requested", "Requested">>, <<"Starting", "Starting">>}

(* C17: every invocation of StartContainer returns; it returns nil,        *)
(* ErrStartingContainer or ErrTimeout, one of them only, and moves only    *)
(* Requested -> Starting -> Running, Requested -> failed, Starting ->      *)
(* failed and Starting -> TimedOut.                                        *)
C17_StartTerminates ==
    /\ []((op = "StartContainer" /\ pc = "done") =>
            \/ ret = Nil /\ lastInspect = "running"
            \/ ret = {ErrTimeout}
            \/ ErrStartingContainer \in ret /\ ErrTimeout \notin ret)
    /\ [][(op = "StartContainer" /\ pc # "done") =>
            (op' = op /\ <<StartState, StartState'>> \in StartTransitions)]_vars
    /\ (op = "StartContainer" /\ pc # "done") ~> (op = "StartContainer" /\ pc = "done")

C17_Witness ==
    /\ op = "StartContainer"
    /\ pc = "done"
    /\ calls["inspect"] >= 2
    /\ lastInspect = "notrunning"
    /\ ret = {ErrTimeout}

(* C18: PullImage's presence check runs under the verify timeout and its   *)
(* context is released before the pull context is made: the pull context   *)
(* starts unexpired with the full pull timeout, whatever became of the     *)
(* verify context.  StartContainer makes one context, with the start       *)
(* timeout, that bounds the start call and every inspect: its elapsed time *)
(* is never reset before the return.                                       *)
C18_DeadlinesPerOperation ==
    /\ [](/\ (op = "PullImage" /\ pc = "list") => ctxTimeout = dockerImageVerifyTimeout
          /\ (op = "PullImage" /\ pc \in {"pull", "read"}) => ctxTimeout = dockerPullTimeout
          /\ (op = "StartContainer" /\ pc # "done") =>
                 (ctxTimeout = dockerStartContainerTimeout
                     /\ (expired <=> ticks >= PollsPerTimeout))
          /\ pc \in {"done", "idle"} => (ctxTimeout = 0 /\ ~expired))
    /\ [][/\ (op = "PullImage" /\ pc = "list" /\ pc' = "pull") =>
                 (~expired' /\ ctxTimeout' = dockerPullTimeout)
          /\ (op = "StartContainer" /\ pc # "done" /\ pc' # "done") =>
                 (ticks' >= ticks /\ ctxTimeout' = ctxTimeout /\ (expired => expired'))]_vars

C18_Witness ==
    /\ op = "PullImage"
    /\ pc = "pull"
    /\ verifyErr = {ErrListingImages, "DeadlineExceeded"}
    /\ ctxTimeout = dockerPullTimeout
    /\ ~expired

(* C19: the port map handed to ContainerCreate is a function of the ports  *)
(* argument alone, whatever order the entries are visited in; every        *)
(* container port in it has exactly one binding {0.0.0.0, host port}, and  *)
(* every host port of the argument appears in it.                          *)
C19_TranslationDeterministic ==
    (op = "CreateContainer" /\ calls["create"] = 1) =>
        /\ \A t \in TranslationRuns[ports] : t.ok /\ t.portmap = sentPortmap
        /\ \A c \in DOMAIN sentPortmap :
               /\ Len(sentPortmap[c]) = 1
               /\ sentPortmap[c][1].HostIP = "0.0.0.0"
               /\ sentPortmap[c][1].HostPort \in DOMAIN ports
        /\ \A h \in DOMAIN ports :
               \E c \in DOMAIN sentPortmap : sentPortmap[c][1].HostPort = h

(* C20: when CreateClient has returned, a client it constructed and did    *)
(* not close is in the caller's hands.                                     *)
C20_NoAdapterLeftOpen ==
    (op = "CreateClient" /\ pc = "done" /\ adapter = "open") =>
        (client = "held" /\ retID # 0)

====
